---- MODULE Spec2Model ----
(***************************************************************************)
(* Model of the chore-list desktop shell (src/main.js): the Electron main  *)
(* process that spawns the Flask API process, waits for readiness, opens a *)
(* window on the API's root page and kills the API process on exit.        *)
(* Time is counted in milliseconds; timers fire no earlier than their      *)
(* deadline and the clock does not pass a due timer.                       *)
(* The chore store behind the API is not part of the shell's source; it is *)
(* modelled from the specification (sections 3, 4.1 and 5) under StoreSpec.*)
(***************************************************************************)
EXTENDS Integers, Sequences, FiniteSets, TLC

\* ------------------------------------------------------------------ bounds
MaxTime == 4000
MaxWindows == 2
MaxChunks == 2
MaxFails == 2
NumClients == 2
MaxOps == 4

\* ------------------------------------------------------- program constants
SettleDelay == 1000
FallbackTimeout == 3000
RetryDelay == 1000

\* Resolution of the clock: the shortest delay the program uses.
Granularity == SettleDelay

NoTimer == -1
NullWin == 0
WinIds == 1..MaxWindows

VARIABLES
    now,            \* wall clock, ms since the process started
    readyFired,     \* app 'ready' has been emitted
    flaskProcess,   \* module global: "null" or "child"
    childUp,        \* spawn started a child process
    childExited,    \* a kill() call has found that process exited
    errorSeen,      \* the child's 'error' listener has run
    uncaught,       \* exceptions thrown while setting up the child that nothing caught
    promise,        \* startFlaskServer's promise: none/pending/resolved/rejected
    resolvedBy,     \* which callback settled the promise
    settleTimers,   \* deadlines of the setTimeout(resolve, 1000) timers
    fallbackTimer,  \* deadline of setTimeout(resolve, 3000), or NoTimer
    signals,        \* stdout chunks containing 'Running on' so far
    firstSignalAt,  \* arrival time of the first of them, or NoTimer
    errSignals,     \* stderr chunks containing 'Running on' so far
    mainWindow,     \* module global: NullWin or a window id
    windows,        \* window id -> none/loading/loaded/failed/closed
    nWin,           \* number of BrowserWindows constructed
    creates,        \* handler -> number of createWindow() calls it made
    firstOpenAt,    \* time the first window was constructed, or NoTimer
    readyOpenAt,    \* time the 'ready' handler constructed its window, or NoTimer
    retryTimers,    \* pending retry timers: [due, win]
    fails,          \* did-fail-load events so far
    retryLoads,     \* loadURL calls issued by retry timers
    strayLoads,     \* those issued on a window other than the one that failed
    thrown,         \* retry timers that dereferenced a null mainWindow
    pendingEv,      \* app event being emitted: none/window-all-closed/quit
    quitCause,      \* what called app.quit(): none/abort/all-closed/user
    kills,          \* flaskProcess.kill() calls so far
    signalled,      \* those that delivered the signal to the child
    terminated,     \* the 'quit' handler has run, the shell is gone
    \* ---- the chore store
    rows,           \* the table: id -> Chore record
    nextId,         \* the id the next create is given
    gate,           \* holder of the store's mutual-exclusion gate, or NoClient
    clock,          \* the store's timestamp source
    pc,             \* client -> position in its current operation
    req,            \* client -> the create request it is carrying out
    myId,           \* client -> the id it read for its new record
    result,         \* outcome of the operation that completed last
    ops,            \* operations begun so far
    issued,         \* ids given to new records, in the order of the writes
    removed         \* ids deleted so far

procVars == <<flaskProcess, childUp, childExited, errorSeen, uncaught, kills,
              signalled>>
waitVars == <<promise, resolvedBy, settleTimers, fallbackTimer>>
outVars == <<signals, firstSignalAt, errSignals>>
winVars == <<mainWindow, windows, nWin, creates, firstOpenAt, readyOpenAt>>
loadVars == <<retryTimers, fails, retryLoads, strayLoads, thrown>>
exitVars == <<pendingEv, quitCause, terminated>>
shellVars == <<now, readyFired, procVars, waitVars, outVars, winVars, loadVars,
               exitVars>>
storeVars == <<rows, nextId, gate, clock, pc, req, myId, result, ops, issued,
               removed>>
vars == <<shellVars, storeVars>>

OpenStates == {"loading", "loaded", "failed"}
OpenWindows == {w \in WinIds : windows[w] \in OpenStates}

MinOf(S) == CHOOSE x \in S : \A y \in S : x <= y

\* The event loop is running user callbacks: no app-level event is in the
\* middle of being emitted and the process has not exited.
Running == readyFired /\ pendingEv = "none" /\ ~terminated

ShellInit ==
    /\ now = 0
    /\ readyFired = FALSE
    /\ flaskProcess = "null"
    /\ childUp = FALSE
    /\ childExited = FALSE
    /\ errorSeen = FALSE
    /\ uncaught = 0
    /\ promise = "none"
    /\ resolvedBy = "none"
    /\ settleTimers = <<>>
    /\ fallbackTimer = NoTimer
    /\ signals = 0
    /\ firstSignalAt = NoTimer
    /\ errSignals = 0
    /\ mainWindow = NullWin
    /\ windows = [w \in WinIds |-> "none"]
    /\ nWin = 0
    /\ creates = [h \in {"ready", "activate"} |-> 0]
    /\ firstOpenAt = NoTimer
    /\ readyOpenAt = NoTimer
    /\ retryTimers = <<>>
    /\ fails = 0
    /\ retryLoads = 0
    /\ strayLoads = 0
    /\ thrown = 0
    /\ pendingEv = "none"
    /\ quitCause = "none"
    /\ kills = 0
    /\ signalled = 0
    /\ terminated = FALSE

\* ---------------------------------------------- the store's initial state
Clients == 1..NumClients
NoClient == 0
NoVal == "(omitted)"
Priorities == {"low", "medium", "high"}
DefaultPriority == "medium"

\* Requests the clients send.
CreateRequests ==
    [title : {"", "Wash car"}, description : {NoVal},
     priority : {NoVal, "high", "urgent"}]
Patches ==
    { [title |-> NoVal, description |-> NoVal, priority |-> NoVal, completed |-> "true"],
      [title |-> "Mow lawn", description |-> "soon", priority |-> "low", completed |-> NoVal],
      [title |-> "", description |-> NoVal, priority |-> NoVal, completed |-> NoVal],
      [title |-> NoVal, description |-> NoVal, priority |-> "urgent", completed |-> NoVal] }
TargetIds == 1..MaxOps

\* What an operation returns: its status and the id of the record returned.
Outcome(op, status, id) == [op |-> op, status |-> status, id |-> id]

StoreInit ==
    /\ rows = <<>>
    /\ nextId = 1
    /\ gate = NoClient
    /\ clock = 0
    /\ pc = [c \in Clients |-> "idle"]
    /\ req = [c \in Clients |-> NoVal]
    /\ myId = [c \in Clients |-> 0]
    /\ result = Outcome("none", "none", 0)
    /\ ops = 0
    /\ issued = <<>>
    /\ removed = {}

Init == ShellInit /\ StoreInit

\* ------------------------------------------------------------ createWindow
\* new BrowserWindow, loadURL, and the two handlers registered on it.
createWindow(by) ==
    /\ nWin' = nWin + 1
    /\ mainWindow' = nWin + 1
    /\ windows' = [windows EXCEPT ![nWin + 1] = "loading"]
    /\ creates' = [creates EXCEPT ![by] = @ + 1]
    /\ firstOpenAt' = IF nWin = 0 THEN now ELSE firstOpenAt
    /\ readyOpenAt' = IF by = "ready" THEN now ELSE readyOpenAt

\* app.quit(): Electron closes every window (each 'closed' handler nulls
\* mainWindow) and then emits 'quit'; 'window-all-closed' is not emitted.
appQuit(cause) ==
    /\ windows' = [w \in WinIds |->
                     IF windows[w] \in OpenStates THEN "closed" ELSE windows[w]]
    /\ mainWindow' = NullWin
    /\ pendingEv' = "quit"
    /\ quitCause' = cause
    /\ UNCHANGED <<nWin, creates, firstOpenAt, readyOpenAt, terminated>>

\* Mutant: every resolve() call resumes the 'ready' handler, also when the
\* wait was settled before.
resolve_everyCall(by) ==
    /\ promise' = "resolved"
    /\ resolvedBy' = by
    /\ createWindow("ready")
    /\ UNCHANGED exitVars

\* resolve(): settles the promise once; the awaiting 'ready' handler then
\* continues with createWindow() before any other event is handled.
resolve(by) ==
    IF promise = "pending"
    THEN /\ promise' = "resolved"
         /\ resolvedBy' = by
         /\ createWindow("ready")
         /\ UNCHANGED exitVars
    ELSE UNCHANGED <<promise, resolvedBy, winVars, exitVars>>

\* reject(error), called on a promise in state p: a pending promise becomes
\* rejected, a settled one ignores the call.
reject(p, by) ==
    IF p = "pending"
    THEN /\ promise' = "rejected"
         /\ resolvedBy' = by
    ELSE /\ promise' = p
         /\ UNCHANGED resolvedBy

\* Mutant: the 'error' listener logs and does not reject.
ChildError_logsOnly(p) ==
    /\ errorSeen' = TRUE
    /\ promise' = p
    /\ UNCHANGED resolvedBy

\* flaskProcess.on('error'), run with the promise in state p: logs and calls
\* reject.  The child emits 'error' for a failed spawn (from
\* process.nextTick, in the turn that ran spawn) and for a failed kill()
\* (synchronously, inside the kill() call).
ChildError(p) ==
    /\ errorSeen' = TRUE
    /\ reject(p, "error")

\* Mutant: the fallback timer is never armed.
FallbackDeadline_unarmed == NoTimer

\* Deadline armed by setTimeout(resolve, 3000).
FallbackDeadline == now + FallbackTimeout

\* Deadline armed by setTimeout(resolve, 1000) in the stdout handler.
SettleDeadline == now + SettleDelay

\* Deadline armed by the did-fail-load handler's setTimeout.
RetryDeadline == now + RetryDelay

\* ------------------------------------------------------------- app 'ready'
\* What spawn('python3', ...) can do:
\*   running  the child process runs;
\*   error    spawn returns a child with its pipes and queues the child's
\*            'error' (ENOENT, EACCES, ...) with process.nextTick: the handler
\*            runs when the 'ready' handler has returned at its await, before
\*            any other event;
\*   nostdio  spawn returns a child without pipes (EMFILE, ENFILE) and queues
\*            its 'error': flaskProcess.stdout.on throws a TypeError, and the
\*            'error' is emitted with no listener, an uncaught exception;
\*   threw    spawn itself throws (E2BIG, ...), flaskProcess is not assigned.
SpawnOutcomes == {"running", "error", "nostdio", "threw"}

\* Outcomes on which the promise executor throws before it has armed the
\* fallback timer; the promise is rejected by the exception.
ExecutorThrows(o) == o \in {"nostdio", "threw"}

\* The turn of app 'ready': startFlaskServer up to the await (the promise is
\* created pending; spawn, listeners, fallback timer) and what the same turn
\* runs after it: the child's 'error' listener on a failed spawn, and, when
\* the promise was rejected, the catch block's app.quit().
AppOnReady ==
    /\ UNCHANGED storeVars
    /\ ~readyFired
    /\ readyFired' = TRUE
    /\ \E o \in SpawnOutcomes :
          /\ flaskProcess' = IF o = "threw" THEN flaskProcess ELSE "child"
          /\ childUp' = (o = "running")
          /\ uncaught' = IF o = "nostdio" THEN uncaught + 1 ELSE uncaught
          /\ fallbackTimer' = IF ExecutorThrows(o) THEN fallbackTimer
                                                   ELSE FallbackDeadline
          /\ IF ExecutorThrows(o)
             THEN reject("pending", "exception") /\ UNCHANGED errorSeen
             ELSE IF o = "error"
             THEN ChildError("pending")
             ELSE /\ promise' = "pending"
                  /\ UNCHANGED <<errorSeen, resolvedBy>>
    /\ IF promise' = "rejected"
       THEN appQuit("abort")
       ELSE UNCHANGED <<winVars, exitVars>>
    /\ UNCHANGED <<now, childExited, kills, signalled, settleTimers, outVars, loadVars>>

\* Output chunks containing 'Running on' received so far, on either stream.
TextChunks == signals + errSignals

\* flaskProcess.stdout.on('data'): logs; a chunk containing 'Running on'
\* arms a settle timer.
StdoutData(hasText) ==
    /\ UNCHANGED storeVars
    /\ Running /\ childUp
    /\ hasText => TextChunks < MaxChunks
    /\ IF hasText
       THEN /\ settleTimers' = Append(settleTimers, SettleDeadline)
            /\ signals' = signals + 1
            /\ firstSignalAt' = IF signals = 0 THEN now ELSE firstSignalAt
       ELSE UNCHANGED <<settleTimers, signals, firstSignalAt>>
    /\ UNCHANGED <<now, readyFired, procVars, promise, resolvedBy, fallbackTimer,
                   errSignals, winVars, loadVars, exitVars>>

\* flaskProcess.stderr.on('data'): logs only, whatever the chunk contains.
StderrData(hasText) ==
    /\ UNCHANGED storeVars
    /\ Running /\ childUp
    /\ hasText => TextChunks < MaxChunks
    /\ errSignals' = IF hasText THEN errSignals + 1 ELSE errSignals
    /\ UNCHANGED <<now, readyFired, procVars, waitVars, signals, firstSignalAt, winVars,
                   loadVars, exitVars>>

\* A settle timer expires and calls resolve.
SettleTimer ==
    /\ UNCHANGED storeVars
    /\ Running
    /\ settleTimers /= <<>> /\ Head(settleTimers) <= now
    /\ settleTimers' = Tail(settleTimers)
    /\ resolve("settle")
    /\ UNCHANGED <<now, readyFired, procVars, fallbackTimer, outVars, loadVars>>

\* The fallback timer expires and calls resolve.
FallbackTimer ==
    /\ UNCHANGED storeVars
    /\ Running
    /\ fallbackTimer /= NoTimer /\ fallbackTimer <= now
    /\ fallbackTimer' = NoTimer
    /\ resolve("fallback")
    /\ UNCHANGED <<now, readyFired, procVars, settleTimers, outVars, loadVars>>

\* ---------------------------------------------------------- app 'activate'
AppOnActivate ==
    /\ UNCHANGED storeVars
    /\ Running
    /\ nWin + (IF promise = "pending" THEN 1 ELSE 0) < MaxWindows
    /\ IF mainWindow = NullWin
       THEN createWindow("activate")
       ELSE UNCHANGED winVars
    /\ UNCHANGED <<now, readyFired, procVars, waitVars, outVars, loadVars, exitVars>>

\* ------------------------------------------------------------ page loading
\* The page load of window w completes.
LoadFinished(w) ==
    /\ UNCHANGED storeVars
    /\ Running
    /\ windows[w] = "loading"
    /\ windows' = [windows EXCEPT ![w] = "loaded"]
    /\ UNCHANGED <<now, readyFired, procVars, waitVars, outVars, mainWindow, nWin,
                   creates, firstOpenAt, readyOpenAt, loadVars, exitVars>>

\* Mutant: the handler is registered with once(), only the first failure
\* arms a retry.
ScheduleRetry_once(w) ==
    IF fails = 0
    THEN Append(retryTimers, [due |-> RetryDeadline, win |-> w])
    ELSE retryTimers

\* setTimeout(() => mainWindow.loadURL(...), 1000) in the did-fail-load
\* handler of window w.
ScheduleRetry(w) == Append(retryTimers, [due |-> RetryDeadline, win |-> w])

\* Mutant: a failed retry load is fatal, the handler quits the application.
FailQuits_onRetry == retryLoads > 0

\* Whether the did-fail-load handler calls app.quit(): it never does.
FailQuits == FALSE

\* webContents 'did-fail-load' of window w: logs and arms a retry timer.
DidFailLoad(w) ==
    /\ UNCHANGED storeVars
    /\ Running
    /\ windows[w] = "loading"
    /\ fails < MaxFails
    /\ fails' = fails + 1
    /\ retryTimers' = ScheduleRetry(w)
    /\ IF FailQuits
       THEN appQuit("abort")
       ELSE /\ windows' = [windows EXCEPT ![w] = "failed"]
            /\ UNCHANGED <<mainWindow, nWin, creates, firstOpenAt, readyOpenAt, exitVars>>
    /\ UNCHANGED <<now, readyFired, procVars, waitVars, outVars, retryLoads,
                   strayLoads, thrown>>

\* A retry timer expires: mainWindow.loadURL(...) on whatever the global
\* holds now; a null global makes the callback throw a TypeError.
RetryTimer ==
    /\ UNCHANGED storeVars
    /\ Running
    /\ retryTimers /= <<>> /\ Head(retryTimers).due <= now
    /\ retryTimers' = Tail(retryTimers)
    /\ IF mainWindow = NullWin
       THEN /\ thrown' = thrown + 1
            /\ UNCHANGED <<windows, retryLoads, strayLoads>>
       ELSE /\ windows' = [windows EXCEPT ![mainWindow] = "loading"]
            /\ retryLoads' = retryLoads + 1
            /\ strayLoads' = IF Head(retryTimers).win = mainWindow
                              THEN strayLoads ELSE strayLoads + 1
            /\ UNCHANGED thrown
    /\ UNCHANGED <<now, readyFired, procVars, waitVars, outVars, mainWindow, nWin,
                   creates, firstOpenAt, readyOpenAt, fails, exitVars>>

\* ------------------------------------------------------------ window close
\* The user closes window w; its 'closed' handler nulls the global.  When it
\* was the last open window Electron emits 'window-all-closed' next.
WindowClosed(w) ==
    /\ UNCHANGED storeVars
    /\ Running
    /\ windows[w] \in OpenStates
    /\ windows' = [windows EXCEPT ![w] = "closed"]
    /\ mainWindow' = NullWin
    /\ pendingEv' = IF OpenWindows = {w} THEN "window-all-closed" ELSE "none"
    /\ UNCHANGED <<now, readyFired, procVars, waitVars, outVars, nWin, creates,
                   firstOpenAt, readyOpenAt, loadVars, quitCause, terminated>>

\* What flaskProcess.kill() can do:
\*   sent      the signal is delivered, kill() returns true;
\*   failed    the system refuses the signal (EPERM): the child emits
\*             'error' inside the call, kill() returns false;
\*   nohandle  there is no process: kill() returns false and does nothing.
\* A failed spawn leaves no process.  A spawned child may have exited by
\* the time of the call (app.py ended or is missing, or an earlier signal
\* took effect); main.js listens to no 'exit' event, so the call is where
\* the program meets the exit, and once exited the child stays so.
KillOutcomes ==
    IF childUp /\ ~childExited THEN {"sent", "failed", "nohandle"}
                               ELSE {"nohandle"}

\* `if (flaskProcess) { flaskProcess.kill(); }` with kill() doing o.  When the
\* 'error' listener rejects a pending wait here, the catch block's
\* app.quit() comes after the shell has begun to quit and changes nothing.
KillIfProcess(o) ==
    IF flaskProcess = "null"
    THEN UNCHANGED <<kills, signalled, childExited, errorSeen, promise, resolvedBy>>
    ELSE /\ kills' = kills + 1
         /\ signalled' = IF o = "sent" THEN signalled + 1 ELSE signalled
         /\ childExited' = (childExited \/ (childUp /\ o = "nohandle"))
         /\ IF o = "failed"
            THEN ChildError(promise)
            ELSE UNCHANGED <<errorSeen, promise, resolvedBy>>

\* app.on('window-all-closed'): kill the child, then app.quit().
AppOnWindowAllClosed ==
    /\ UNCHANGED storeVars
    /\ readyFired /\ ~terminated
    /\ pendingEv = "window-all-closed"
    /\ \E o \in KillOutcomes : KillIfProcess(o)
    /\ appQuit("all-closed")
    /\ UNCHANGED <<now, readyFired, flaskProcess, childUp, uncaught, settleTimers,
                   fallbackTimer, outVars, loadVars>>

\* The user quits the application (menu, Cmd+Q): Electron runs app.quit().
UserQuit ==
    /\ UNCHANGED storeVars
    /\ Running
    /\ appQuit("user")
    /\ UNCHANGED <<now, readyFired, procVars, waitVars, outVars, loadVars>>

\* app.on('quit'): kill the child; the process then exits.
AppOnQuit ==
    /\ UNCHANGED storeVars
    /\ readyFired /\ ~terminated
    /\ pendingEv = "quit"
    /\ \E o \in KillOutcomes : KillIfProcess(o)
    /\ terminated' = TRUE
    /\ pendingEv' = "none"
    /\ UNCHANGED <<now, readyFired, flaskProcess, childUp, uncaught, settleTimers,
                   fallbackTimer, outVars, winVars, loadVars, quitCause>>

\* -------------------------------------------------------------------- time
Deadlines ==
    {settleTimers[i] : i \in 1..Len(settleTimers)}
      \cup {retryTimers[i].due : i \in 1..Len(retryTimers)}
      \cup (IF fallbackTimer = NoTimer THEN {} ELSE {fallbackTimer})

\* Time passes in steps of the shortest timer delay, never past the next
\* timer deadline and never beyond MaxTime.
Tick ==
    /\ UNCHANGED storeVars
    /\ Running
    /\ now < MaxTime
    /\ \A d \in Deadlines : d > now
    /\ now' = MinOf({now + Granularity} \cup Deadlines)
    /\ now' <= MaxTime
    /\ UNCHANGED <<readyFired, procVars, waitVars, outVars, winVars, loadVars,
                   exitVars>>

Next ==
    \/ AppOnReady
    \/ \E t \in BOOLEAN : StdoutData(t)
    \/ \E t \in BOOLEAN : StderrData(t)
    \/ SettleTimer
    \/ FallbackTimer
    \/ AppOnActivate
    \/ \E w \in WinIds : LoadFinished(w)
    \/ \E w \in WinIds : DidFailLoad(w)
    \/ RetryTimer
    \/ \E w \in WinIds : WindowClosed(w)
    \/ AppOnWindowAllClosed
    \/ UserQuit
    \/ AppOnQuit
    \/ Tick

Spec == Init /\ [][Next]_vars

\* What the event loop guarantees: an emitted app event is handled, a due
\* timer fires and time passes.  Nothing is assumed of the user, the child's
\* output or the page loads.
Fairness ==
    /\ WF_vars(AppOnReady)
    /\ WF_vars(SettleTimer)
    /\ WF_vars(FallbackTimer)
    /\ WF_vars(RetryTimer)
    /\ WF_vars(AppOnWindowAllClosed)
    /\ WF_vars(AppOnQuit)
    /\ WF_vars(Tick)

LiveSpec == Spec /\ Fairness

\* ------------------------------------------------------------- shell state
\* The spec's state machine, read off the program's state.  Starting is the
\* synchronous part of the 'ready' handler and is never observable.
ShellState ==
    IF terminated THEN "Terminated"
    ELSE IF pendingEv /= "none" THEN "Closing"
    ELSE IF ~readyFired THEN "Idle"
    ELSE IF promise = "pending" THEN "WaitingReady"
    ELSE "WindowOpen"

\* ======================================================================
\* Properties of the shell
\* ======================================================================
RetriesArmed == Len(retryTimers) + retryLoads + thrown

\* C1: the kill is sent to the API process exactly once in every run, also
\* when 'window-all-closed' and the 'quit' it triggers both fire.
C1_KillExactlyOnce ==
    childUp /\ creates["activate"] = 0 =>
        /\ kills <= 1
        /\ terminated => kills = 1

\* C2 (as claimed): a window whose load fails gets one retry load and no
\* more, also when the retry load fails.
C2_AtMostOneRetry == nWin <= 1 /\ creates["activate"] = 0 => RetriesArmed <= 1

\* C2 (amended): every load failure, that of a retry load included, arms
\* exactly one retry timer, due one retry delay after the failure.
C2_RetryPerFailure ==
    /\ RetriesArmed = fails
    /\ \A i \in 1..Len(retryTimers) :
          /\ retryTimers[i].due >= now
          /\ retryTimers[i].due <= now + RetryDelay

C2_Witness == nWin = 1 /\ fails = 2 /\ retryLoads = 2

\* C3: when the shell has terminated after spawning the API process, a
\* termination signal has been delivered to it, whichever exit path was
\* taken, unless the process had exited by itself before.
C3_SignalledBeforeTerminated ==
    terminated /\ childUp /\ ~childExited => signalled >= 1

\* C4: the readiness wait never lasts beyond the fallback timeout, and when
\* no readiness text arrived and no spawn error occurred (no 'error' event
\* handled, no exception out of spawn) the wait ends with the 'ready'
\* handler's window, opened at the fallback timeout.
C4_WaitBounded ==
    /\ ShellState = "WaitingReady" => now <= FallbackTimeout
    /\ (/\ promise \in {"resolved", "rejected"} /\ signals = 0
        /\ ~errorSeen /\ resolvedBy /= "exception")
         => /\ promise = "resolved"
            /\ creates["ready"] = 1
            /\ readyOpenAt = FallbackTimeout

C4_Witness ==
    /\ resolvedBy = "fallback" /\ signals = 0 /\ ~errorSeen
    /\ creates["ready"] = 1 /\ nWin = 1 /\ windows[1] = "loading"

\* C5: when the API process fails to spawn (its 'error' event, or spawn
\* throwing) no window is ever created and the shell quits: the readiness
\* wait is rejected and the shell is closing or gone from the turn of
\* 'ready' on.  Without a spawn failure an 'error' event comes from a kill()
\* that failed, on an exit path only.
C5_SpawnFailureAborts ==
    /\ readyFired /\ ~childUp =>
          /\ nWin = 0
          /\ promise = "rejected" /\ quitCause = "abort"
          /\ ShellState \in {"Closing", "Terminated"}
    /\ errorSeen => ShellState \in {"Closing", "Terminated"}

C5_Witness ==
    /\ errorSeen /\ ~childUp /\ resolvedBy = "error"
    /\ terminated /\ quitCause = "abort" /\ nWin = 0 /\ kills = 1

\* C6: windows exist only from WindowOpen on: none is created in Idle or
\* during the readiness wait, and none is open once Closing has begun.
C6_StateOrder ==
    /\ ShellState \in {"Idle", "WaitingReady"} => nWin = 0
    /\ ShellState \in {"Closing", "Terminated"} =>
          pendingEv = "window-all-closed" \/ OpenWindows = {}

\* C7: a window opened before the fallback timeout was opened at least one
\* settle delay after a readiness signal.
C7_NoEarlyWindow ==
    firstOpenAt /= NoTimer /\ firstOpenAt < FallbackTimeout
      => /\ firstSignalAt /= NoTimer
         /\ firstSignalAt + SettleDelay <= firstOpenAt

\* The API has not become ready: no page load has succeeded.  (Windows
\* opened by 'activate' are left out, they are the matter of C6 and C7.)
NeverLoaded ==
    /\ \A w \in WinIds : windows[w] /= "loaded"
    /\ creates["activate"] = 0

\* C8 (as claimed): an API that never accepts a page load is fatal: the
\* shell eventually exits.  Stated for the runs in which a load has failed,
\* its retry has been issued and in the end no timer is left pending (the
\* last load is never answered), so that nothing in the program is still
\* to run.
C8_NeverReadyIsFatal ==
    []NeverLoaded /\ <>(fails >= 1 /\ retryLoads >= 1) /\ <>[](Deadlines = {})
        => <>(ShellState \in {"Closing", "Terminated"})

\* A failed page load leaves the shell open, with one more retry armed.
FailureKeepsOpen ==
    fails' > fails =>
        /\ pendingEv' = "none" /\ ~terminated'
        /\ Len(retryTimers') = Len(retryTimers) + 1

\* Once its window is open the shell stays open until the user quits or
\* closes the last window.
OpenUntilUserExit ==
    ShellState = "WindowOpen" /\ ShellState' /= "WindowOpen" =>
        \/ pendingEv' = "quit" /\ quitCause' = "user"
        \/ pendingEv' = "window-all-closed" /\ OpenWindows' = {}

\* C8 (amended): an API that never accepts a page load is not fatal: every
\* failed load only arms a retry, and the shell remains open until the user
\* quits or closes the last window.
C8_NeverReadyStaysOpen == [][FailureKeepsOpen /\ OpenUntilUserExit]_vars

C8_Witness ==
    /\ ~terminated /\ pendingEv = "none"
    /\ nWin = 1 /\ windows[1] = "failed" /\ fails = 2 /\ retryLoads = 1
    /\ resolvedBy = "fallback" /\ now = MaxTime

\* C11: a readiness line on stderr starts the early transition just as one
\* on stdout does: while the wait is pending a settle timer is armed for it.
C11_StderrSignalSettles ==
    errSignals > 0 /\ signals = 0 /\ promise = "pending"
      => settleTimers /= <<>>

\* C12: at most one window is open at any time.
C12_AtMostOneWindow == Cardinality(OpenWindows) <= 1

\* C13: a retry timer that fires finds mainWindow non-null and referring to
\* the window whose load failed.
C13_RetryOnFailedWindow == thrown = 0 /\ strayLoads = 0

\* The 'ready' handler has created a window exactly when the wait was
\* resolved, never twice, and a rejected wait comes with the shell quitting.
SettledOnce ==
    /\ creates["ready"] <= 1
    /\ creates["ready"] = 1 <=> promise = "resolved"
    /\ promise = "rejected" => ShellState \in {"Closing", "Terminated"}

\* A settled wait stays as it is, whatever resolve and reject calls follow,
\* and leads to no further createWindow call by the 'ready' handler.
SettledStays ==
    promise \in {"resolved", "rejected"} =>
        /\ promise' = promise
        /\ resolvedBy' = resolvedBy
        /\ creates' = [creates EXCEPT !["activate"] = creates'["activate"]]

\* C14: the readiness wait is settled once and the 'ready' handler calls
\* createWindow once, however many resolve and reject calls are made.
C14_SingleSettlement == []SettledOnce /\ [][SettledStays]_vars

\* Two output chunks armed a settle timer each, both of them and the
\* fallback timer have fired, and the child's 'error' listener has then
\* called reject on the resolved wait.
C14_Witness ==
    /\ signals = 2 /\ settleTimers = <<>>
    /\ readyFired /\ fallbackTimer = NoTimer /\ now >= FallbackTimeout
    /\ resolvedBy = "settle" /\ creates["ready"] = 1
    /\ errorSeen /\ promise = "resolved"


\* ======================================================================
\* The chore store (modelled from the specification)
\* ======================================================================
\* create's validation: title non-empty, priority omitted or enumerated.
ValidCreate(r) ==
    /\ r.title /= ""
    /\ r.priority \in Priorities \cup {NoVal}

\* update's validation of the supplied fields only.
ValidPatch(f) ==
    /\ f.title /= ""
    /\ f.priority \in Priorities \cup {NoVal}

Supplied(v, old) == IF v = NoVal THEN old ELSE v

\* The record create persists.
NewChore(id, r) ==
    [id |-> id, title |-> r.title,
     description |-> Supplied(r.description, ""),
     completed |-> FALSE,
     priority |-> Supplied(r.priority, DefaultPriority),
     created_at |-> clock + 1, updated_at |-> clock + 1]

\* The record update persists: partial replacement, updated_at refreshed.
Patched(old, f) ==
    [old EXCEPT !.title = Supplied(f.title, @),
                !.description = Supplied(f.description, @),
                !.priority = Supplied(f.priority, @),
                !.completed = IF f.completed = NoVal THEN @ ELSE f.completed = "true",
                !.updated_at = clock + 1]

\* Mutant: no gate, every client enters at once.
GateOpen_always(c) == TRUE

\* The mutual-exclusion gate around id assignment and write.
GateOpen(c) == gate = NoClient

\* create, step 1: validation; an invalid request fails and changes nothing.
CreateBegin(c, r) ==
    /\ UNCHANGED shellVars
    /\ pc[c] = "idle" /\ ops < MaxOps
    /\ ops' = ops + 1
    /\ IF ValidCreate(r)
       THEN /\ pc' = [pc EXCEPT ![c] = "enter"]
            /\ req' = [req EXCEPT ![c] = r]
            /\ UNCHANGED result
       ELSE /\ result' = Outcome("create", "ValidationError", 0)
            /\ UNCHANGED <<pc, req>>
    /\ UNCHANGED <<rows, nextId, gate, clock, myId, issued, removed>>

\* create, step 2: pass the gate.
CreateEnter(c) ==
    /\ UNCHANGED shellVars
    /\ pc[c] = "enter" /\ GateOpen(c)
    /\ gate' = c
    /\ pc' = [pc EXCEPT ![c] = "assign"]
    /\ UNCHANGED <<rows, nextId, clock, req, myId, result, ops, issued, removed>>

\* create, step 3: read the next id.
CreateAssign(c) ==
    /\ UNCHANGED shellVars
    /\ pc[c] = "assign"
    /\ myId' = [myId EXCEPT ![c] = nextId]
    /\ pc' = [pc EXCEPT ![c] = "write"]
    /\ UNCHANGED <<rows, nextId, gate, clock, req, result, ops, issued, removed>>

\* create, step 4: write the record, advance the id counter, open the gate
\* and return the record.
CreateWrite(c) ==
    /\ UNCHANGED shellVars
    /\ pc[c] = "write"
    /\ rows' = (myId[c] :> NewChore(myId[c], req[c])) @@ rows
    /\ nextId' = myId[c] + 1
    /\ clock' = clock + 1
    /\ issued' = Append(issued, myId[c])
    /\ gate' = IF gate = c THEN NoClient ELSE gate
    /\ result' = Outcome("create", "ok", myId[c])
    /\ pc' = [pc EXCEPT ![c] = "idle"]
    /\ req' = [req EXCEPT ![c] = NoVal]
    /\ myId' = [myId EXCEPT ![c] = 0]
    /\ UNCHANGED <<ops, removed>>

\* Mutant: update validates before it looks the id up.
UpdateOutcome_validateFirst(id, f) ==
    IF ~ValidPatch(f) THEN "ValidationError"
    ELSE IF id \notin DOMAIN rows THEN "NotFoundError"
    ELSE "ok"

\* update's outcome: not found if the id is absent, else validation.
UpdateOutcome(id, f) ==
    IF id \notin DOMAIN rows THEN "NotFoundError"
    ELSE IF ~ValidPatch(f) THEN "ValidationError"
    ELSE "ok"

\* update(id, fields), carried out under the gate.
Update(c, id, f) ==
    /\ UNCHANGED shellVars
    /\ pc[c] = "idle" /\ ops < MaxOps /\ GateOpen(c)
    /\ ops' = ops + 1
    /\ IF UpdateOutcome(id, f) = "ok"
       THEN /\ rows' = [rows EXCEPT ![id] = Patched(@, f)]
            /\ clock' = clock + 1
            /\ result' = Outcome("update", "ok", id)
       ELSE /\ result' = Outcome("update", UpdateOutcome(id, f), 0)
            /\ UNCHANGED <<rows, clock>>
    /\ UNCHANGED <<nextId, gate, pc, req, myId, issued, removed>>

\* delete(id), carried out under the gate: hard delete, the id is not reused.
Delete(c, id) ==
    /\ UNCHANGED shellVars
    /\ pc[c] = "idle" /\ ops < MaxOps /\ GateOpen(c)
    /\ ops' = ops + 1
    /\ IF id \in DOMAIN rows
       THEN /\ rows' = [i \in DOMAIN rows \ {id} |-> rows[i]]
            /\ removed' = removed \cup {id}
            /\ clock' = clock + 1
            /\ result' = Outcome("delete", "ok", id)
       ELSE /\ result' = Outcome("delete", "NotFoundError", 0)
            /\ UNCHANGED <<rows, removed, clock>>
    /\ UNCHANGED <<nextId, gate, pc, req, myId, issued>>

StoreNext ==
    \/ \E c \in Clients, r \in CreateRequests : CreateBegin(c, r)
    \/ \E c \in Clients : CreateEnter(c)
    \/ \E c \in Clients : CreateAssign(c)
    \/ \E c \in Clients : CreateWrite(c)
    \/ \E c \in Clients, id \in TargetIds, f \in Patches : Update(c, id, f)
    \/ \E c \in Clients, id \in TargetIds : Delete(c, id)

StoreSpec == Init /\ [][StoreNext]_vars

\* ======================================================================
\* Properties of the store
\* ======================================================================
\* C9: concurrent creates are serialized: the ids given out are pairwise
\* distinct and strictly increasing in the order of the writes, and no
\* write is lost (every id given out and not deleted is a record).
C9_CreatesSerialized ==
    /\ \A i, j \in 1..Len(issued) : i < j => issued[i] < issued[j]
    /\ DOMAIN rows = {issued[i] : i \in 1..Len(issued)} \ removed
    /\ Cardinality(DOMAIN rows) = Len(issued) - Cardinality(removed)
    /\ \A id \in DOMAIN rows : rows[id].id = id

\* Two creates have written their records and two more are in flight, one
\* inside the gate and one waiting at it.
C9_Witness ==
    /\ Len(issued) >= 2
    /\ \E c, d \in Clients :
          /\ c /= d
          /\ pc[c] = "write" /\ gate = c
          /\ pc[d] = "enter"

\* C10: an update of an id that is not in the store fails with
\* NotFoundError and leaves the table as it was.
C10_UpdateAbsentNoEffect ==
    [][\A c \in Clients, id \in TargetIds, f \in Patches :
          Update(c, id, f) /\ id \notin DOMAIN rows
            => /\ result' = Outcome("update", "NotFoundError", 0)
               /\ rows' = rows /\ nextId' = nextId]_vars

C10_Witness ==
    /\ result = Outcome("update", "NotFoundError", 0)
    /\ DOMAIN rows /= {}
====
